---- MODULE Spec2Model ----
(***************************************************************************)
(* Model of anim_bake.py: the AnimBake session object, the do_bake entry   *)
(* point, and the Maya scene (keys and key tangents of the animation       *)
(* curves) that the tool reads and mutates through host commands.          *)
(*                                                                         *)
(* One action per program step.  Every host command that mutates the scene *)
(* (keyTangent -edit, bakeResults, setKeyframe -insert, cutKey -clear) is  *)
(* one step and is appended to the call log `calls`.  A host command may   *)
(* raise instead of returning (HostRaises); the exception is not caught    *)
(* anywhere in anim_bake.py, so it ends the run.                           *)
(*                                                                         *)
(* A behaviour is one call of do_bake, from any scene of the bounded sets. *)
(* The AnimBake instance is local to do_bake and the module keeps no state *)
(* of its own, so a later call is another behaviour, starting from the     *)
(* scene it finds.                                                         *)
(***************************************************************************)
EXTENDS Integers, Sequences, FiniteSets, TLC

\* ---- bounds of the model ------------------------------------------------
MaxFrame == 2      \* playback ranges (min, max) with 0 <= min <= max <= MaxFrame
NumCurves == 3     \* animation curves in the scene

None == "None"     \* Python's None, where a node name is expected
\* A Python value that is None or a list
NoList == [is_none |-> TRUE, items |-> <<>>]
List(s) == [is_none |-> FALSE, items |-> s]
\* No AnimBake instance
NoBake == [is_none |-> TRUE]
Curves == 1 .. NumCurves

Min(S) == CHOOSE x \in S : \A y \in S : x <= y
Max(S) == CHOOSE x \in S : \A y \in S : x >= y
Abs(x) == IF x < 0 THEN -x ELSE x
Range(s) == {s[n] : n \in 1 .. Len(s)}

\* buffer_multiplier=2, the default of AnimBake.__init__; do_bake never passes it
DefaultBufferMultiplier == 2

\* ---- the host scene ------------------------------------------------------
\* Playback ranges of the timeline: the short ones, with the range of a single
\* frame among them, and the range 10..50.
ExampleRange == <<10, 50>>
TimeRanges == {r \in (0 .. MaxFrame) \X (0 .. MaxFrame) : r[1] <= r[2]} \cup
              {ExampleRange}

\* Key frames of curve c before the tool runs: every other curve has two keys,
\* the ones in between a single key, which is then both the first and the last.
InitKeys(c) == IF c % 2 = 1 THEN {0, MaxFrame} ELSE {1}
Scenes == {[c \in Curves |-> InitKeys(c)], [c \in Curves |-> InitKeys(c + 1)]}

\* Tangent of curve c at key frame f before the tool runs.  All eight values of
\* a two-key curve are different, so that a copy from the wrong slot shows.
InitTangent(c, f) ==
    [inWeight  |-> 100 * c + 10 * f + 1,
     inAngle   |-> 100 * c + 10 * f + 2,
     outWeight |-> 100 * c + 10 * f + 3,
     outAngle  |-> 100 * c + 10 * f + 4,
     lock      |-> TRUE]

\* Tangent the host gives to a key that it creates itself (bake, insert).
HostTangent == [inWeight |-> 0, inAngle |-> 0, outWeight |-> 0, outAngle |-> 0,
                lock |-> TRUE]

\* Curve lists the host can report: the first n curves of the scene, in scene
\* order and without repetition.
CurveLists == {[m \in 1 .. n |-> m] : n \in 0 .. NumCurves}

VARIABLES
    playback,      \* host: (min, max) of the playback range
    keys,          \* host: keys[c] = key frames of curve c
    tangents,      \* host: tangents[c][f] = tangent record of curve c at key f
    bake,          \* the AnimBake instance of the run, or NoBake
    trim_curves,   \* do_bake's argument
    pc,            \* position of the run
    i,             \* index into bake.curves of the curve being processed
    k,             \* index of the inner loop (keys / SET_KEYS_AT)
    locals,        \* locals of the loop body of bake_curves
    calls,         \* host mutation commands issued in this run, in order
    warnings,      \* pm.warning messages of this run
    raised,        \* a host exception propagated out of do_bake in this run
    invoked,       \* do_bake has been called
    hist           \* observations of the run: scene at start, default curves, ...

vars == <<playback, keys, tangents, bake, trim_curves, pc, i, k, locals, calls,
          warnings, raised, invoked, hist>>

NoLocals == [keys |-> <<>>, first_tangent |-> 0, first_angle |-> 0,
             last_tangent |-> 0, last_angle |-> 0]

\* Observations of a run that starts in a scene with keys K and tangents T.
NewHist(K, T, sel, layers, dflt) ==
    [keys0 |-> K, tangents0 |-> T, defaultCurves |-> dflt, selected |-> sel,
     bake_layers |-> layers, trimEntered |-> FALSE, raisedAt |-> "Idle",
     raisedI |-> 0, removed |-> [c \in Curves |-> {}]]

Init ==
    /\ playback \in TimeRanges
    /\ keys \in Scenes
    /\ tangents = [c \in Curves |-> [f \in keys[c] |-> InitTangent(c, f)]]
    /\ bake = NoBake
    /\ trim_curves = FALSE
    /\ pc = "Idle"
    /\ i = 0
    /\ k = 0
    /\ locals = NoLocals
    /\ calls = <<>>
    /\ warnings = <<>>
    /\ raised = FALSE
    /\ invoked = FALSE
    /\ hist = NewHist(keys, tangents, FALSE, FALSE, NoList)

\* ---- AnimBake ------------------------------------------------------------
\* check_anim_layers that takes a root layer for layers being present
check_anim_layers_root_only(root, children) ==
    [base_anim_layer |-> root,
     child_layers |-> IF root # None THEN children ELSE NoList,
     found_layer |-> root # None]

\* check_anim_layers: root is what animLayer(q, root) reports, children what
\* animLayer(root, q, children) reports.  child_layers keeps the None that
\* __init__ gave it when there is no root layer.
check_anim_layers(root, children) ==
    LET child_layers == IF root # None THEN children ELSE NoList
        found_layer == /\ root # None
                       /\ child_layers # NoList
                       /\ Len(child_layers.items) > 0
    IN [base_anim_layer |-> root, child_layers |-> child_layers,
        found_layer |-> found_layer]

\* SET_KEYS_AT without the frames outside the range
set_keys_at_inside(range) == <<range[1], range[2], range[1], range[2]>>

\* SET_KEYS_AT of line 41
set_keys_at(range) == <<range[1] - 1, range[2] + 1, range[1], range[2]>>

\* AnimBake.__init__(bake_all_layers, buffer_multiplier)
AnimBake(bake_all_layers, buffer_multiplier, range, found, root, children) ==
    LET anim_length == Abs(range[2] - range[1])
        layers == check_anim_layers(root, children)
    IN [time_range |-> range,
        anim_length |-> anim_length,
        curves |-> found,
        child_layers |-> layers.child_layers,
        base_anim_layer |-> layers.base_anim_layer,
        bake_all_layers |-> bake_all_layers,
        has_anim_layers |-> layers.found_layer,
        BUFFER |-> anim_length * buffer_multiplier,
        SET_KEYS_AT |-> set_keys_at(range)]

\* get_first_last_keys
get_first_last_keys(curve) == <<Min(keys[curve]), Max(keys[curve])>>

\* curves_exist (its warning is issued by the calling action)
curves_exist(b) == b.curves # NoList

\* tangent_opts with the two ends exchanged
tangent_opts_swapped(l) ==
    [inWeight |-> l.first_tangent, inAngle |-> l.first_angle,
     outWeight |-> l.last_tangent, outAngle |-> l.last_angle]

\* tangent_opts of bake_curves, as the flag values of keyTangent -edit
tangent_opts(l) ==
    [inWeight |-> l.last_tangent, inAngle |-> l.last_angle,
     outWeight |-> l.first_tangent, outAngle |-> l.first_angle]

\* bake window that is padded in front only
BakeWindow_front_only(b) == <<b.time_range[1] - b.BUFFER, b.time_range[2]>>

\* window handed to bakeResults
BakeWindow(b) == <<b.time_range[1] - b.BUFFER, b.time_range[2] + b.BUFFER>>

\* first cutKey window that reaches up to the start frame
CutWindowBefore_to_start(b) == <<b.time_range[1] - b.BUFFER, b.time_range[1]>>

\* windows handed to the two cutKey calls
CutWindowBefore(b) == <<b.time_range[1] - b.BUFFER, b.time_range[1] - 1>>
CutWindowAfter(b) == <<b.time_range[2] + 1, b.time_range[2] + b.BUFFER>>

\* ---- host commands --------------------------------------------------------
\* A Maya time range (lo, hi) selects the keys at lo, at hi and in between.
InTimeRange(f, w) == w[1] <= f /\ f <= w[2]

\* keyTangent(curve, edit, time=(key,), lock=False, **opts)
HostKeyTangentEdit(T, key, opts) ==
    IF key \in DOMAIN T
    THEN [T EXCEPT ![key] = [inWeight |-> opts.inWeight, inAngle |-> opts.inAngle,
                             outWeight |-> opts.outWeight, outAngle |-> opts.outAngle,
                             lock |-> FALSE]]
    ELSE T

\* bakeResults(curve, time=w, sac=True): the keys of the curve afterwards.  A
\* curve of several keys cycles outside its keys and gets a key on every frame
\* of the window; a curve of one key is constant, and the sparse bake keeps its
\* keys inside the window and adds the window's ends.
HostBakeKeys(K, w) ==
    IF Cardinality(K) > 1
    THEN w[1] .. w[2]
    ELSE {f \in K : InTimeRange(f, w)} \cup {w[1], w[2]}

\* setKeyframe(curve, insert=True, time=f)
HostInsertKey(K, f) == K \cup {f}

\* cutKey(curve, clear=True, time=w)
HostCutKeys(K, w) == {f \in K : ~InTimeRange(f, w)}

\* tangents of a curve whose keys became K: kept keys keep theirs
Retangent(T, K) == [f \in K |-> IF f \in DOMAIN T THEN T[f] ELSE HostTangent]

Call(op, curve, time, opts) == [op |-> op, curve |-> curve, time |-> time, opts |-> opts]

\* ---- do_bake --------------------------------------------------------------
\* do_bake that trims whatever the option says
AfterBake_always_trim == "trim_bake_to_timerange"

\* where do_bake goes once bake_curves has returned, lines 169-170
AfterBake == IF trim_curves THEN "trim_bake_to_timerange" ELSE "Idle"

\* selection test that lets the empty selection pass
has_selection_always(selection) == Len(selection) >= 0

\* the test of line 161 on what pm.ls(selection=True) reports
has_selection(selection) == Len(selection) > 0

\* do_bake(bake_layers, trim): the selection test and, with a selection, the
\* construction of the AnimBake instance.
do_bake(bake_layers, trim, selection, found, root, children) ==
    /\ pc = "Idle"
    /\ ~invoked
    /\ invoked' = TRUE
    /\ trim_curves' = trim
    /\ calls' = <<>>
    /\ raised' = FALSE
    /\ i' = 0
    /\ k' = 0
    /\ locals' = NoLocals
    /\ IF has_selection(selection)
       THEN /\ bake' = AnimBake(bake_layers, DefaultBufferMultiplier, playback,
                                found, root, children)
            /\ warnings' = <<>>
            /\ pc' = IF bake_layers THEN "add_all_layer_curves" ELSE "bake_curves"
            /\ hist' = NewHist(keys, tangents, selection # <<>>, bake_layers, found)
       ELSE /\ bake' = NoBake
            /\ warnings' = <<"[anim_bake.py] Nothing selected.">>
            /\ pc' = "Idle"
            /\ hist' = NewHist(keys, tangents, selection # <<>>, bake_layers, NoList)
    /\ UNCHANGED <<playback, keys, tangents>>

\* add_all_layer_curves: history is the animCurve nodes of listHistory
add_all_layer_curves(history) ==
    /\ pc = "add_all_layer_curves"
    /\ bake' = IF bake.has_anim_layers THEN [bake EXCEPT !.curves = List(history)] ELSE bake
    /\ pc' = "bake_curves"
    /\ UNCHANGED <<playback, keys, tangents, trim_curves, i, k, locals, calls,
                   warnings, raised, invoked, hist>>

\* bake_curves up to the first iteration of its loop
bake_curves ==
    /\ pc = "bake_curves"
    /\ IF curves_exist(bake)
       THEN /\ warnings' = warnings
            /\ IF Len(bake.curves.items) > 0
               THEN pc' = "get_first_last_keys" /\ i' = 1
               ELSE pc' = AfterBake /\ i' = 0
       ELSE /\ warnings' = Append(warnings, "No curves to bake")
            /\ pc' = AfterBake
            /\ i' = 0
    /\ UNCHANGED <<playback, keys, tangents, bake, trim_curves, k, locals, calls,
                   raised, invoked, hist>>

\* loop body of bake_curves, lines 104-110: the first and last key and the four
\* tangent queries
read_tangents ==
    /\ pc = "get_first_last_keys"
    /\ LET curve == bake.curves.items[i]
           ks == get_first_last_keys(curve)
       IN locals' = [keys |-> ks,
                     first_tangent |-> tangents[curve][ks[1]].outWeight,
                     first_angle |-> tangents[curve][ks[1]].outAngle,
                     last_tangent |-> tangents[curve][ks[2]].inWeight,
                     last_angle |-> tangents[curve][ks[2]].inAngle]
    /\ k' = 1
    /\ pc' = "keyTangent"
    /\ UNCHANGED <<playback, keys, tangents, bake, trim_curves, i, calls, warnings,
                   raised, invoked, hist>>

\* one iteration of `for key in keys`, line 119
edit_tangent ==
    /\ pc = "keyTangent"
    /\ LET curve == bake.curves.items[i]
           key == locals.keys[k]
           opts == tangent_opts(locals)
       IN /\ tangents' = [tangents EXCEPT
                            ![curve] = HostKeyTangentEdit(tangents[curve], key, opts)]
          /\ calls' = Append(calls, Call("keyTangent", curve, <<key>>,
                        <<opts.inWeight, opts.inAngle, opts.outWeight, opts.outAngle>>))
    /\ IF k < Len(locals.keys)
       THEN k' = k + 1 /\ pc' = pc
       ELSE k' = 0 /\ pc' = "bakeResults"
    /\ UNCHANGED <<playback, keys, bake, trim_curves, i, locals, warnings, raised,
                   invoked, hist>>

\* bakeResults, lines 122-123, and the step to the next curve
bake_results ==
    /\ pc = "bakeResults"
    /\ LET curve == bake.curves.items[i]
           w == BakeWindow(bake)
           K == HostBakeKeys(keys[curve], w)
       IN /\ keys' = [keys EXCEPT ![curve] = K]
          /\ tangents' = [tangents EXCEPT ![curve] = Retangent(tangents[curve], K)]
          /\ calls' = Append(calls, Call("bakeResults", curve, w, <<>>))
    /\ IF i < Len(bake.curves.items)
       THEN i' = i + 1 /\ pc' = "get_first_last_keys"
       ELSE i' = 0 /\ pc' = AfterBake
    /\ UNCHANGED <<playback, bake, trim_curves, k, locals, warnings, raised, invoked,
                   hist>>

\* trim_bake_to_timerange up to the first iteration of its loop
trim_bake_to_timerange ==
    /\ pc = "trim_bake_to_timerange"
    /\ hist' = [hist EXCEPT !.trimEntered = TRUE]
    /\ IF curves_exist(bake)
       THEN /\ warnings' = warnings
            /\ IF Len(bake.curves.items) > 0
               THEN pc' = "setKeyframe" /\ i' = 1 /\ k' = 1
               ELSE pc' = "Idle" /\ i' = 0 /\ k' = 0
       ELSE /\ warnings' = Append(warnings, "No curves to bake")
            /\ pc' = "Idle"
            /\ i' = 0
            /\ k' = 0
    /\ UNCHANGED <<playback, keys, tangents, bake, trim_curves, locals, calls,
                   raised, invoked>>

\* one iteration of `for key in self.SET_KEYS_AT`, line 136
set_keyframe ==
    /\ pc = "setKeyframe"
    /\ LET curve == bake.curves.items[i]
           key == bake.SET_KEYS_AT[k]
           K == HostInsertKey(keys[curve], key)
       IN /\ keys' = [keys EXCEPT ![curve] = K]
          /\ tangents' = [tangents EXCEPT ![curve] = Retangent(tangents[curve], K)]
          /\ calls' = Append(calls, Call("setKeyframe", curve, <<key>>, <<>>))
    /\ IF k < Len(bake.SET_KEYS_AT)
       THEN k' = k + 1 /\ pc' = pc
       ELSE k' = 0 /\ pc' = "cutKey_before"
    /\ UNCHANGED <<playback, bake, trim_curves, i, locals, warnings, raised, invoked,
                   hist>>

\* the host's cutKey over window w on the curve being trimmed
CutKey(w) ==
    LET curve == bake.curves.items[i]
        K == HostCutKeys(keys[curve], w)
    IN /\ keys' = [keys EXCEPT ![curve] = K]
       /\ tangents' = [tangents EXCEPT ![curve] = Retangent(tangents[curve], K)]
       /\ calls' = Append(calls, Call("cutKey", curve, w, <<>>))
       /\ hist' = [hist EXCEPT !.removed[curve] = @ \cup (keys[curve] \ K)]

\* first cutKey, line 139
cut_key_before ==
    /\ pc = "cutKey_before"
    /\ CutKey(CutWindowBefore(bake))
    /\ pc' = "cutKey_after"
    /\ UNCHANGED <<playback, bake, trim_curves, i, k, locals, warnings, raised, invoked>>

\* second cutKey, line 140, and the step to the next curve
cut_key_after ==
    /\ pc = "cutKey_after"
    /\ CutKey(CutWindowAfter(bake))
    /\ IF i < Len(bake.curves.items)
       THEN i' = i + 1 /\ k' = 1 /\ pc' = "setKeyframe"
       ELSE i' = 0 /\ k' = 0 /\ pc' = "Idle"
    /\ UNCHANGED <<playback, bake, trim_curves, locals, warnings, raised, invoked>>

\* Positions inside the loop of bake_curves and of trim_bake_to_timerange.
BakePcs == {"get_first_last_keys", "keyTangent", "bakeResults"}
TrimPcs == {"setKeyframe", "cutKey_before", "cutKey_after"}

\* Positions at which the next thing the run does is a host command.
HostCallPcs == {"add_all_layer_curves"} \cup BakePcs \cup TrimPcs

\* a bake_curves that catches the exception and lets do_bake go on
HostRaises_caught ==
    /\ pc \in HostCallPcs
    /\ pc' = IF pc \in TrimPcs THEN "Idle" ELSE AfterBake
    /\ raised' = FALSE
    /\ hist' = [hist EXCEPT !.raisedAt = pc, !.raisedI = i]
    /\ UNCHANGED <<playback, keys, tangents, bake, trim_curves, i, k, locals, calls,
                   warnings, invoked>>

\* The host command at the current position raises.  Nothing in anim_bake.py
\* catches it: do_bake is left with the exception and the scene as it is.
HostRaises ==
    /\ pc \in HostCallPcs
    /\ pc' = "Idle"
    /\ raised' = TRUE
    /\ hist' = [hist EXCEPT !.raisedAt = pc, !.raisedI = i]
    /\ UNCHANGED <<playback, keys, tangents, bake, trim_curves, i, k, locals, calls,
                   warnings, invoked>>

\* What the host can report to the constructor's queries.
Selections == {<<>>, <<"pCube1">>}
FoundCurves == {NoList} \cup {List(s) : s \in CurveLists \ {<<>>}}
RootLayers == {None, "BaseAnimation"}
ChildLayers == {NoList, List(<<>>), List(<<"AnimLayer1">>)}

Invoke ==
    \E bake_layers, trim \in BOOLEAN, selection \in Selections,
       found \in FoundCurves, root \in RootLayers, children \in ChildLayers :
        do_bake(bake_layers, trim, selection, found, root, children)

AddLayers == \E history \in CurveLists : add_all_layer_curves(history)

RunStep ==
    \/ AddLayers
    \/ bake_curves
    \/ read_tangents
    \/ edit_tangent
    \/ bake_results
    \/ trim_bake_to_timerange
    \/ set_keyframe
    \/ cut_key_before
    \/ cut_key_after

Next == Invoke \/ RunStep \/ HostRaises

Spec == Init /\ [][Next]_vars

\* The script is one synchronous thread: once started, a run takes its next
\* step (or the host command raises).
FairSpec == Spec /\ WF_vars(RunStep \/ HostRaises)

\* ---- observations used by the properties ----------------------------------
TrimOps == {"setKeyframe", "cutKey"}

\* the curve set of the run, as a sequence
CurveSet == IF bake = NoBake THEN <<>> ELSE bake.curves.items

\* positions in the call log of the commands `op` issued on curve c
CallsOf(op, c) == {n \in 1 .. Len(calls) : calls[n].op = op /\ calls[n].curve = c}

\* the run is over
Returned == pc = "Idle" /\ invoked

\* bake_curves has returned normally
BakeCurvesReturned ==
    /\ bake # NoBake
    /\ \/ pc \in TrimPcs \cup {"trim_bake_to_timerange"}
       \/ Returned /\ ~(raised /\ hist.raisedAt \in BakePcs \cup {"add_all_layer_curves"})

\* number of curves on which trim_bake_to_timerange has finished
TrimmedCount ==
    IF pc \in TrimPcs THEN i - 1
    ELSE IF Returned /\ hist.trimEntered
         THEN IF raised THEN hist.raisedI - 1 ELSE Len(CurveSet)
         ELSE 0

\* what the playback range makes of the windows, computed apart from AnimBake
Start == playback[1]
End == playback[2]
Buffer == (End - Start) * 2

\* C1: for every curve of the curve set, after the tangent edits and before the
\* bake call, the first key's incoming tangent is the last key's incoming
\* tangent as it was before the run, and the last key's outgoing tangent is the
\* first key's outgoing tangent as it was before the run.
C1_MirrorSwap ==
    pc = "bakeResults" =>
        LET c == bake.curves.items[i]
            first == Min(hist.keys0[c])
            last == Max(hist.keys0[c])
            T0 == hist.tangents0[c]
            T == tangents[c]
        IN /\ T[first].inWeight = T0[last].inWeight
           /\ T[first].inAngle = T0[last].inAngle
           /\ T[last].outWeight = T0[first].outWeight
           /\ T[last].outAngle = T0[first].outAngle

\* a two-key curve whose first key's incoming tangent has been rewritten
C1_Witness ==
    /\ pc = "bakeResults"
    /\ LET c == bake.curves.items[i]
           first == Min(hist.keys0[c])
           last == Max(hist.keys0[c])
       IN /\ first # last
          /\ tangents[c][first].inWeight # hist.tangents0[c][first].inWeight
          /\ tangents[c][last].outAngle # hist.tangents0[c][last].outAngle

\* C2: every bake call has the window (start - buffer, end + buffer) with
\* buffer = (end - start) * 2, no curve is baked twice, and once bake_curves has
\* returned every curve of the curve set has been baked exactly once.
C2_BakeWindow ==
    /\ \A n \in 1 .. Len(calls) :
          calls[n].op = "bakeResults" =>
              calls[n].time = <<Start - Buffer, End + Buffer>>
    /\ playback = <<10, 50>> =>
          \A n \in 1 .. Len(calls) :
              calls[n].op = "bakeResults" => calls[n].time = <<-70, 130>>
    /\ \A c \in Curves : Cardinality(CallsOf("bakeResults", c)) <= 1
    /\ BakeCurvesReturned =>
          \A n \in 1 .. Len(CurveSet) :
              Cardinality(CallsOf("bakeResults", CurveSet[n])) = 1

\* bake_curves has returned after baking two curves over the range 10..50
C2_Witness ==
    /\ BakeCurvesReturned
    /\ Len(CurveSet) >= 2
    /\ playback = <<10, 50>>
    /\ \A n \in 1 .. Len(CurveSet) :
          \E m \in CallsOf("bakeResults", CurveSet[n]) :
              calls[m].time = <<-70, 130>>

\* frames of the setKeyframe calls on curve c before log position n
InsertedBefore(c, n) == {calls[m].time[1] : m \in {j \in CallsOf("setKeyframe", c) : j < n}}

\* C3: keys are inserted only at start - 1, end + 1, start and end; a cutKey call
\* on a curve comes only after the four insertions on that curve; a curve that
\* has been trimmed got four insertions and two cutKey calls, one over
\* (start - buffer, start - 1) and one over (end + 1, end + buffer).
C3_TrimCalls ==
    LET Frames == {Start - 1, End + 1, Start, End}
        Before == <<Start - Buffer, Start - 1>>
        After == <<End + 1, End + Buffer>>
    IN /\ \A n \in 1 .. Len(calls) :
             /\ calls[n].op = "setKeyframe" => calls[n].time[1] \in Frames
             /\ calls[n].op = "cutKey" =>
                   /\ Cardinality({j \in CallsOf("setKeyframe", calls[n].curve) : j < n}) = 4
                   /\ InsertedBefore(calls[n].curve, n) = Frames
                   /\ calls[n].time \in {Before, After}
       /\ \A n \in 1 .. TrimmedCount :
             LET c == CurveSet[n]
                 cuts == CallsOf("cutKey", c)
             IN /\ Cardinality(CallsOf("setKeyframe", c)) = 4
                /\ Cardinality(cuts) = 2
                /\ Cardinality({j \in cuts : calls[j].time = Before}) = 1
                /\ Cardinality({j \in cuts : calls[j].time = After}) = 1

\* two curves trimmed over a range of at least one frame
C3_Witness ==
    /\ Returned
    /\ ~raised
    /\ TrimmedCount >= 2
    /\ End > Start
    /\ Cardinality(CallsOf("cutKey", CurveSet[2])) = 2

\* the resolved curve set is empty: absent, or a list without elements
EmptyCurveSet == bake # NoBake /\ (bake.curves = NoList \/ bake.curves = List(<<>>))

\* C4: when the curve set is empty once bake_curves and trim_bake_to_timerange
\* are through, no host mutation command has been issued and a warning has been
\* reported.
C4_EmptySetWarns ==
    (BakeCurvesReturned /\ EmptyCurveSet) => (calls = <<>> /\ Len(warnings) >= 1)

\* C5: a call of do_bake with nothing selected reports the warning, creates no
\* AnimBake instance, issues no host mutation command and leaves the scene as
\* it was.
C5_NothingSelected ==
    (invoked /\ ~hist.selected) =>
        /\ pc = "Idle"
        /\ bake = NoBake
        /\ calls = <<>>
        /\ warnings = <<"[anim_bake.py] Nothing selected.">>
        /\ keys = hist.keys0
        /\ tangents = hist.tangents0

\* do_bake was called with both options set and nothing selected
C5_Witness == invoked /\ ~hist.selected /\ hist.bake_layers /\ trim_curves

\* C6: the curve set differs from what the keyframe selection gave only if
\* bake-all-layers was requested and there is a root layer with a non-empty
\* list of child layers; with no root layer, or a root layer whose child list is
\* absent or empty, the curve set is what the keyframe selection gave.
C6_LayerExpansion ==
    bake # NoBake =>
        /\ bake.curves # hist.defaultCurves =>
              /\ hist.bake_layers
              /\ bake.base_anim_layer # None
              /\ bake.child_layers # NoList
              /\ Len(bake.child_layers.items) >= 1
        /\ (\/ bake.base_anim_layer = None
            \/ bake.child_layers = NoList
            \/ bake.child_layers = List(<<>>)) => bake.curves = hist.defaultCurves

\* a run with bake-all-layers in which the layers' curves, not those of the
\* keyframe selection, are being baked
C6_Witness ==
    /\ bake # NoBake
    /\ hist.bake_layers
    /\ bake.curves # hist.defaultCurves
    /\ pc = "bakeResults"

\* ---- phases of a run ------------------------------------------------------
\* Idle (0), curve set being resolved (1), tangents normalized and curves baked
\* (2), trimmed (3)
PhaseRank ==
    CASE pc = "Idle" -> 0
      [] pc \in {"add_all_layer_curves", "bake_curves"} -> 1
      [] pc \in BakePcs -> 2
      [] pc \in TrimPcs \cup {"trim_bake_to_timerange"} -> 3

\* every curve of the curve set has had its two tangent edits and its bake call
\* before log position n
AllBakedBefore(n) ==
    \A c \in Range(CurveSet) :
        /\ Cardinality({j \in CallsOf("keyTangent", c) : j < n}) = 2
        /\ Cardinality({j \in CallsOf("bakeResults", c) : j < n}) = 1

C7_PhaseState ==
    /\ (PhaseRank = 1 \/ ~invoked) => calls = <<>>
    /\ \A n \in 1 .. Len(calls) :
          /\ calls[n].op \in TrimOps => AllBakedBefore(n)
          /\ calls[n].op \in TrimOps => PhaseRank \in {0, 3}
          /\ \A m \in 1 .. n - 1 : calls[m].op \in TrimOps => calls[n].op \in TrimOps
    /\ hist.trimEntered => trim_curves
    /\ (Returned /\ hist.selected /\ ~raised) => (hist.trimEntered <=> trim_curves)
    /\ PhaseRank = 3 <=> (pc # "Idle" /\ (hist.trimEntered \/ pc = "trim_bake_to_timerange"))

C7_PhaseStep ==
    /\ PhaseRank = 0 => PhaseRank' <= 1
    /\ PhaseRank' >= PhaseRank \/ PhaseRank' = 0
    /\ PhaseRank >= 2 => bake' = bake
    /\ PhaseRank = 1 /\ PhaseRank' >= 2 => pc = "bake_curves"

\* C7: a run goes Idle -> curves resolved -> tangents normalized and baked ->
\* trimmed (only with the trim option, and always with it unless a host command
\* raised) -> Idle: no host mutation before the curve set is resolved, the curve
\* set fixed from then on, every curve's tangent edits and bake before the first
\* setKeyframe or cutKey, and every run that has started comes back to Idle.
C7_PhaseOrder ==
    /\ []C7_PhaseState
    /\ [][C7_PhaseStep]_vars
    /\ [](pc # "Idle" => <>(pc = "Idle"))

\* a run with two curves that baked, trimmed and returned
C7_Witness ==
    /\ Returned
    /\ ~raised
    /\ hist.trimEntered
    /\ Len(CurveSet) >= 2
    /\ \E n \in 1 .. Len(calls) : calls[n].op = "bakeResults"
    /\ \E n \in 1 .. Len(calls) : calls[n].op = "cutKey"

\* the commands issued on curve c, in order
CallsOn(c) == SelectSeq(calls, LAMBDA r : r.curve = c)

\* C8: when a host command raises while bake_curves is on the k-th curve, the
\* run is over with the exception, every earlier curve has had exactly its two
\* tangent edits followed by its bake call, no later curve has had any command,
\* and trim_bake_to_timerange has not been entered.
C8_NoRollback ==
    hist.raisedAt \in BakePcs =>
        /\ raised
        /\ pc = "Idle"
        /\ ~hist.trimEntered
        /\ \A n \in 1 .. Len(calls) : calls[n].op \notin TrimOps
        /\ \A n \in 1 .. Len(CurveSet) :
              LET c == CurveSet[n]
                  on == CallsOn(c)
              IN /\ n < hist.raisedI =>
                       /\ Len(on) = 3
                       /\ on[1].op = "keyTangent" /\ on[1].time = <<Min(hist.keys0[c])>>
                       /\ on[2].op = "keyTangent" /\ on[2].time = <<Max(hist.keys0[c])>>
                       /\ on[3].op = "bakeResults"
                       /\ \A f \in hist.keys0[c] \cap DOMAIN tangents[c] :
                             ~tangents[c][f].lock
                 /\ n > hist.raisedI =>
                       /\ on = <<>>
                       /\ keys[c] = hist.keys0[c]
                       /\ tangents[c] = hist.tangents0[c]

\* the tangent edit of the second of three curves raised
C8_Witness ==
    /\ hist.raisedAt = "keyTangent"
    /\ hist.raisedI = 2
    /\ Len(CurveSet) = 3
    /\ Len(CallsOn(CurveSet[1])) = 3
    /\ Len(CallsOn(CurveSet[2])) = 1

\* C9 as claimed: on a trimmed curve the keys at start - 1, start, end and
\* end + 1 are all present, and every key that the cutKey calls removed lay
\* strictly before start - 1 or strictly after end + 1.
C9_MarkersKept ==
    \A n \in 1 .. TrimmedCount :
        LET c == CurveSet[n]
        IN /\ {Start - 1, Start, End, End + 1} \subseteq keys[c]
           /\ \A f \in hist.removed[c] : f < Start - 1 \/ f > End + 1

\* C9 amended: on a trimmed curve the keys at start and end are present, the
\* keys at start - 1 and end + 1 are gone again whenever buffer >= 1, and every
\* key that the cutKey calls removed lay at or before start - 1 or at or after
\* end + 1.
C9_RangeKept ==
    \A n \in 1 .. TrimmedCount :
        LET c == CurveSet[n]
        IN /\ {Start, End} \subseteq keys[c]
           /\ Buffer >= 1 => (Start - 1 \notin keys[c] /\ End + 1 \notin keys[c])
           /\ \A f \in hist.removed[c] : f <= Start - 1 \/ f >= End + 1

\* a trimmed curve that lost the marker keys and keys further out
C9_Witness ==
    /\ TrimmedCount >= 1
    /\ LET c == CurveSet[1]
       IN /\ {Start - 1, End + 1, Start - 2, End + 2} \subseteq hist.removed[c]
          /\ {Start, End} \subseteq keys[c]

\* C10 as claimed: both cutKey windows have lower bound <= upper bound and lie
\* inside the window that was baked.
C10_WindowsWellFormed ==
    \A n \in 1 .. Len(calls) :
        calls[n].op = "cutKey" =>
            /\ calls[n].time[1] <= calls[n].time[2]
            /\ Start - Buffer <= calls[n].time[1]
            /\ calls[n].time[2] <= End + Buffer

====
